---- MODULE Spec2Model ----
(***************************************************************************)
(* gitlog2rss: src/main.rs.  The program reads a YAML configuration, walks *)
(* the commits reachable from HEAD, turns every added / deleted / modified *)
(* file of every non-merge commit into one RSS item, sorts the items by    *)
(* author time, builds the channel and writes it to standard output.       *)
(*                                                                         *)
(* Strings are sequences of one-character strings, Option<T> is a sequence *)
(* of length 0 (None) or 1 (Some), and a computation that may panic or     *)
(* return Err yields the same shape (<<>> for the failure).                *)
(***************************************************************************)
EXTENDS Integers, Sequences, FiniteSets, TLC

VARIABLES
    pc,         \* position in main()
    repo,       \* the commit graph of the repository (parents, commit times, HEAD)
    conf,       \* the parsed configuration and command line
    pending,    \* revwalk: commits queued for output
    seen,       \* revwalk: commits already queued once
    commit,     \* Option: the commit of the current loop iteration
    deltaIdx,   \* position of the delta loop inside the current commit
    path,       \* local `path` of the delta loop body
    url_path,   \* local `url_path` of the delta loop body (Result)
    items,      \* Vec of <<when, item, src>>; src = <<commit id, delta index>> is a history tag
    chan,       \* Option: the built channel
    ttl,        \* Result of the `ttl` match expression
    stdout,     \* what has been written to standard output
    err,        \* why the process aborted ("" while it has not)
    walked      \* history: the commits returned by find_commit, in walk order

vars == <<pc, repo, conf, pending, seen, commit, deltaIdx, path, url_path,
          items, chan, ttl, stdout, err, walked>>

(***************************************************************************)
(* Bounds                                                                  *)
(***************************************************************************)
MaxDeltas == 2        \* deltas per commit
MaxSeconds == 2       \* author times are 1..MaxSeconds seconds
MaxPathLen == 4       \* characters of a path in the URL derivation check
MaxPrefixLen == 3     \* characters of a prefix in the URL derivation check
MaxTtlInt == 3        \* integer ttl values are -2..MaxTtlInt (and 120)
MaxParts == 2         \* number-unit parts of a ttl duration string

(***************************************************************************)
(* Option / Result and string helpers                                      *)
(***************************************************************************)
None == <<>>
Some(x) == <<x>>
IsSome(o) == Len(o) = 1
Unwrap(o) == o[1]

\* str::starts_with
StartsWith(s, p) == Len(p) <= Len(s) /\ SubSeq(s, 1, Len(p)) = p

\* str::ends_with
EndsWith(s, p) == Len(p) <= Len(s) /\ SubSeq(s, Len(s) - Len(p) + 1, Len(s)) = p

\* str::contains
Contains(s, p) == \E i \in 0..(Len(s) - Len(p)) : SubSeq(s, i + 1, i + Len(p)) = p

\* &s[a..b]: panics (None) when a > b or b > len
Slice(s, a, b) == IF a <= b /\ b <= Len(s) THEN Some(SubSeq(s, a + 1, b)) ELSE None

\* all sequences over S of length 0..n
RECURSIVE SeqsUpTo(_, _)
SeqsUpTo(S, n) ==
    IF n = 0 THEN {<<>>}
    ELSE LET shorter == SeqsUpTo(S, n - 1)
         IN  shorter \cup {Append(s, x) : s \in {t \in shorter : Len(t) = n - 1}, x \in S}

MD == <<".", "m", "d">>
HTML == <<"h", "t", "m", "l">>
NORSS == <<"n", "o", "-", "r", "s", "s">>
NL == "\n"

(***************************************************************************)
(* URL path derivation: main.rs 231-239                                    *)
(***************************************************************************)
\* the block `let url_path = { .. }`
UrlPath(p, strip_prefix) ==
    LET first == IF StartsWith(p, strip_prefix) THEN Len(strip_prefix) ELSE 0
    IN  IF EndsWith(p, MD)
        THEN LET cut == Slice(p, first, Len(p) - 2)
             IN  IF IsSome(cut) THEN Some(Unwrap(cut) \o HTML) ELSE None
        ELSE Slice(p, first, Len(p))

(***************************************************************************)
(* ttl: main.rs 276-281                                                    *)
(***************************************************************************)
Digits == <<"0", "1", "2", "3", "4", "5", "6", "7", "8", "9">>
IsDigit(c) == \E i \in 1..10 : Digits[i] = c
DigitVal(c) == (CHOOSE i \in 1..10 : Digits[i] = c) - 1
IsLetter(c) == c \in {"s", "m", "h", "i", "n", "x"}
IsSpace(c) == c = " "

\* format!("{}", x) of an integer
RECURSIVE NatToStr(_)
NatToStr(n) == IF n < 10 THEN <<Digits[n + 1]>> ELSE NatToStr(n \div 10) \o <<Digits[(n % 10) + 1]>>
IntToStr(n) == IF n < 0 THEN <<"-">> \o NatToStr(-n) ELSE NatToStr(n)

\* humantime: seconds of one unit, None for an unknown unit
UnitSeconds(u) ==
    IF u \in {<<"s">>} THEN Some(1)
    ELSE IF u \in {<<"m">>, <<"m", "i", "n">>} THEN Some(60)
    ELSE IF u \in {<<"h">>} THEN Some(3600)
    ELSE None

\* length of the longest prefix of s whose characters satisfy the test
RECURSIVE SpanDigits(_)
SpanDigits(s) == IF s # <<>> /\ IsDigit(Head(s)) THEN 1 + SpanDigits(Tail(s)) ELSE 0
RECURSIVE SpanLetters(_)
SpanLetters(s) == IF s # <<>> /\ IsLetter(Head(s)) THEN 1 + SpanLetters(Tail(s)) ELSE 0
RECURSIVE SpanSpaces(_)
SpanSpaces(s) == IF s # <<>> /\ IsSpace(Head(s)) THEN 1 + SpanSpaces(Tail(s)) ELSE 0

RECURSIVE DigitsVal(_, _)
DigitsVal(s, acc) == IF s = <<>> THEN acc ELSE DigitsVal(Tail(s), acc * 10 + DigitVal(Head(s)))

Drop(s, n) == SubSeq(s, n + 1, Len(s))

\* humantime::parse_duration(x).as_secs(): (spaces digits+ spaces letters+)+ spaces,
\* the sum of number * unit; None for anything else
RECURSIVE ParseParts(_, _, _)
ParseParts(s, acc, any) ==
    LET s1 == Drop(s, SpanSpaces(s))
        nd == SpanDigits(s1)
        s2 == Drop(s1, nd)
        s3 == Drop(s2, SpanSpaces(s2))
        nl == SpanLetters(s3)
        unit == UnitSeconds(SubSeq(s3, 1, nl))
    IN  IF s1 = <<>> THEN (IF any THEN Some(acc) ELSE None)
        ELSE IF nd = 0 \/ nl = 0 \/ ~IsSome(unit) THEN None
        ELSE ParseParts(Drop(s3, nl), acc + DigitsVal(SubSeq(s1, 1, nd), 0) * Unwrap(unit), TRUE)

ParseDurationSecs(s) == ParseParts(s, 0, FALSE)

YInteger(n) == [type |-> "Integer", int |-> n, str |-> <<>>]
YString(s) == [type |-> "String", int |-> 0, str |-> s]
YBadValue == [type |-> "BadValue", int |-> 0, str |-> <<>>]
YBoolean == [type |-> "Boolean", int |-> 0, str |-> <<>>]
YArray == [type |-> "Array", int |-> 0, str |-> <<>>]

\* a variant that rounds the minutes up
TtlOfCeil(y) ==
    IF y.type = "Integer" THEN Some(Some(IntToStr(y.int)))
    ELSE IF y.type = "String"
         THEN LET d == ParseDurationSecs(y.str)
              IN  IF IsSome(d) THEN Some(Some(IntToStr((Unwrap(d) + 59) \div 60))) ELSE None
    ELSE IF y.type = "BadValue" THEN Some(None)
    ELSE None

\* the match on conf["ttl"]: Result<Option<String>>, None for the early return
TtlOf(y) ==
    IF y.type = "Integer" THEN Some(Some(IntToStr(y.int)))
    ELSE IF y.type = "String"
         THEN LET d == ParseDurationSecs(y.str)
              IN  IF IsSome(d) THEN Some(Some(IntToStr(Unwrap(d) \div 60))) ELSE None
    ELSE IF y.type = "BadValue" THEN Some(None)
    ELSE None

(***************************************************************************)
(* Commit messages and the opt-out test: main.rs 160                       *)
(***************************************************************************)
FIX == <<"f", "i", "x">>
M_plain == FIX \o <<NL>>                                   \* "fix\n"
M_last_nl == FIX \o <<NL>> \o NORSS \o <<NL>>              \* "fix\nno-rss\n"
M_middle == FIX \o <<NL>> \o NORSS \o <<NL>> \o FIX \o <<NL>>
M_last == FIX \o <<NL>> \o NORSS                           \* "fix\nno-rss"
M_first == NORSS \o <<NL>> \o FIX \o <<NL>>                \* "no-rss\nfix\n"
M_only == NORSS                                            \* "no-rss"
M_word == FIX \o <<NL, "x">> \o NORSS \o <<NL>>            \* "fix\nxno-rss\n"

\* commit.message() is None for a message that is not UTF-8
Messages == {Some(M_plain), Some(M_last_nl), Some(M_middle), Some(M_last),
             Some(M_first), Some(M_only), Some(M_word), None}

\* commit.message().map_or(false, |msg| msg.contains("\nno-rss\n"))
OptOut(message) == IsSome(message) /\ Contains(Unwrap(message), <<NL>> \o NORSS \o <<NL>>)

(***************************************************************************)
(* Author time: git2::Time and rfc822_time, main.rs 34-41                  *)
(***************************************************************************)
Offsets == {0, 60}
Times == {[seconds |-> s, offset |-> o] : s \in 1..MaxSeconds, o \in Offsets}

\* the key order of the sort: git2::Time orders by (seconds, offset)
TimeLE(a, b) == a.seconds < b.seconds \/ (a.seconds = b.seconds /\ a.offset <= b.offset)

\* FixedOffset::east_opt(offset * 60) ... to_rfc2822(): the local day, time of
\* day and zone of the instant; None for the panic on an offset out of range
Rfc822Time(t) ==
    LET east == t.offset * 60
        local == t.seconds + east
        abs == IF east < 0 THEN -east ELSE east
    IN  IF east <= -86400 \/ east >= 86400 THEN None
        ELSE Some([day |-> local \div 86400,
                   hour |-> (local % 86400) \div 3600,
                   minute |-> (local % 3600) \div 60,
                   second |-> local % 60,
                   zone |-> <<IF east < 0 THEN "-" ELSE "+", abs \div 3600, (abs % 3600) \div 60>>])

(***************************************************************************)
(* Ignore list: Pathspec::matches_path, main.rs 129-133, 222-228           *)
(***************************************************************************)
RECURSIVE Glob(_, _)
Glob(pat, s) ==
    IF pat = <<>> THEN s = <<>>
    ELSE IF Head(pat) = "*"
         THEN Glob(Tail(pat), s) \/ (s # <<>> /\ Glob(pat, Tail(s)))
         ELSE s # <<>> /\ Head(s) = Head(pat) /\ Glob(Tail(pat), Tail(s))

\* if let Some(ref ign) = ignored_files { ign.matches_path(path, ..) }
Ignored(ignored_files, p) ==
    IsSome(ignored_files) /\ \E pat \in Unwrap(ignored_files) : Glob(pat, p)

(***************************************************************************)
(* Base URL and link: url::Url::parse / Url::join, main.rs 144, 253        *)
(***************************************************************************)
\* the segments of a relative path, split at "/"
RECURSIVE Split(_, _)
Split(s, cur) ==
    IF s = <<>> THEN <<cur>>
    ELSE IF Head(s) = "/" THEN <<cur>> \o Split(Tail(s), <<>>)
    ELSE Split(Tail(s), Append(cur, Head(s)))

Front(s) == SubSeq(s, 1, Len(s) - 1)

\* Url::parse: a string without a scheme is no absolute URL
UrlParse(raw) == IF raw.kind = "relative" THEN None ELSE Some(raw)

\* Url::join: relative resolution against the base
UrlJoin(base, rel) ==
    IF base.kind = "opaque" THEN None
    ELSE IF rel = <<>> THEN Some(base)
    ELSE IF Head(rel) = "/" THEN Some([base EXCEPT !.segs = Split(Tail(rel), <<>>)])
    ELSE Some([base EXCEPT !.segs = Front(base.segs) \o Split(rel, <<>>)])

\* str::replace("%p", url_path)
RECURSIVE ReplaceP(_, _)
ReplaceP(title, by) ==
    IF title = <<>> THEN <<>>
    ELSE IF StartsWith(title, <<"%", "p">>) THEN by \o ReplaceP(Drop(title, 2), by)
    ELSE <<Head(title)>> \o ReplaceP(Tail(title), by)

(***************************************************************************)
(* The inputs: repositories, commit contents, configurations               *)
(***************************************************************************)
\* a history: commits[id] = the parents and the commit time of commit id
History(cs, h) == [commits |-> cs, head |-> h]
C(ps, t) == [parents |-> ps, time |-> t]

R_unborn == History(<<>>, None)
R_root == History(<<C(<<>>, 1)>>, Some(1))
R_two == History(<<C(<<>>, 1), C(<<1>>, 2)>>, Some(2))
R_three == History(<<C(<<>>, 1), C(<<1>>, 2), C(<<2>>, 3)>>, Some(3))
\* 4 merges 2 and 3, both children of 1; 2 and 3 carry the same commit time
R_diamond == History(<<C(<<>>, 1), C(<<1>>, 2), C(<<1>>, 2), C(<<2, 3>>, 3)>>, Some(4))
\* the same graph with a skewed clock: the root is newer than commit 3
R_skew == History(<<C(<<>>, 3), C(<<1>>, 4), C(<<1>>, 2), C(<<2, 3>>, 5)>>, Some(4))

Repos == {R_unborn, R_root, R_two, R_three, R_diamond, R_skew}

P_a_md == <<"a", ".", "m", "d">>
P_b == <<"b">>
P_s_k_md == <<"s", "/", "k", ".", "m", "d">>
P_c_md == <<"c", ".", "m", "d">>

Delta(st, old, new) == [status |-> st, old_file |-> old, new_file |-> new]
DeltaKinds == {Delta("Added", None, Some(P_a_md)),
               Delta("Deleted", Some(P_b), None),
               Delta("Modified", Some(P_s_k_md), Some(P_s_k_md)),
               Delta("Typechange", Some(P_c_md), Some(P_c_md))}
DeltaLists == SeqsUpTo(DeltaKinds, MaxDeltas)

AuthorOk == [email |-> Some(<<"e">>), name |-> Some(<<"n">>)]
Authors == {AuthorOk, [AuthorOk EXCEPT !.name = None], [AuthorOk EXCEPT !.email = None]}

Faults == {"none", "revwalk", "find_commit", "parent", "tree", "diff"}

\* what find_commit, the author, the trees and the diff of one commit yield;
\* the contents vary one part of BaseContent at a time
BaseContent == [message |-> Some(M_plain), when |-> [seconds |-> 1, offset |-> 0],
                author |-> AuthorOk, deltas |-> <<Delta("Added", None, Some(P_a_md))>>,
                fault |-> "none"]

\* a commit of a history of three or four commits
FewContents ==
    {[BaseContent EXCEPT !.message = m] : m \in {Some(M_plain), Some(M_last_nl)}}
    \cup {[BaseContent EXCEPT !.when = t] : t \in Times}

\* a commit of a history of two commits: at most one delta
PlainContents ==
    {[BaseContent EXCEPT !.message = m] : m \in Messages}
    \cup {[BaseContent EXCEPT !.when = t] : t \in Times}
    \cup {[BaseContent EXCEPT !.deltas = d] : d \in {l \in DeltaLists : Len(l) <= 1}}
    \cup {[BaseContent EXCEPT !.author = a] : a \in Authors}
    \cup {[BaseContent EXCEPT !.fault = f] : f \in Faults}

\* the commit of a history of one commit: every list of deltas
FullContents ==
    PlainContents \cup {[BaseContent EXCEPT !.deltas = d] : d \in DeltaLists}

Contents(r) ==
    IF Len(r.commits) <= 1 THEN FullContents
    ELSE IF Len(r.commits) = 2 THEN PlainContents
    ELSE FewContents

Url(kind, origin, segs) == [kind |-> kind, origin |-> origin, segs |-> segs]
U_slash == Url("hier", "https://x", <<<<"y">>, <<>>>>)      \* https://x/y/
U_noslash == Url("hier", "https://x", <<<<"y">>>>)          \* https://x/y
U_relative == Url("relative", "", <<<<"y">>>>)              \* y
U_opaque == Url("opaque", "mailto:a", <<>>)                 \* mailto:a

T_new == <<"N", " ", "%", "p">>
T_modified == <<"%", "p", " ", "%", "p">>

DefaultConf ==
    [arg_prefix |-> None,
     strip_prefix |-> None,
     ignore_files |-> None,
     base_url |-> Some(U_slash),
     titles |-> [t \in {"item-title-page-new", "item-title-page-removed",
                        "item-title-page-modified"} |->
                   IF t = "item-title-page-new" THEN Some(T_new)
                   ELSE IF t = "item-title-page-modified" THEN Some(T_modified)
                   ELSE None],
     channel_title |-> Some("t"),
     channel_link |-> Some("l"),
     channel_description |-> Some("d"),
     ttl |-> YBadValue,
     pretty |-> FALSE]

Pre_s == <<"s", "/">>
Pre_a_m == <<"a", ".", "m">>

Confs ==
    {DefaultConf}
    \cup {[DefaultConf EXCEPT !.strip_prefix = Some(Pre_s)],
          [DefaultConf EXCEPT !.arg_prefix = Some(Pre_a_m)],
          [DefaultConf EXCEPT !.arg_prefix = Some(Pre_s), !.strip_prefix = Some(Pre_a_m)]}
    \cup {[DefaultConf EXCEPT !.ignore_files = Some({<<"s", "/", "*">>})]}
    \cup {[DefaultConf EXCEPT !.base_url = u] :
             u \in {None, Some(U_noslash), Some(U_relative), Some(U_opaque)}}
    \cup {[DefaultConf EXCEPT !.channel_title = None]}
    \cup {[DefaultConf EXCEPT !.ttl = y] : y \in {YString(<<"2", "h">>), YBoolean}}
    \cup {[DefaultConf EXCEPT !.pretty = TRUE]}

\* args.get_one("prefix").copied().or_else(|| conf["strip-prefix"].as_str()).unwrap_or("")
StripPrefix(c) ==
    IF IsSome(c.arg_prefix) THEN Unwrap(c.arg_prefix)
    ELSE IF IsSome(c.strip_prefix) THEN Unwrap(c.strip_prefix)
    ELSE <<>>

(***************************************************************************)
(* main()                                                                  *)
(***************************************************************************)
Init ==
    /\ pc = "start"
    /\ repo \in Repos
    /\ conf \in Confs
    /\ pending = {}
    /\ seen = {}
    /\ commit = None
    /\ deltaIdx = 0
    /\ path = <<>>
    /\ url_path = None
    /\ items = <<>>
    /\ chan = None
    /\ ttl = None
    /\ stdout = <<>>
    /\ err = ""
    /\ walked = <<>>

\* an Err returned by `?` or a panic: the process ends, its locals are gone,
\* what was written to standard output stays written
Abort(kind, out) ==
    /\ pc' = "aborted"
    /\ err' = kind
    /\ stdout' = out
    /\ pending' = {}
    /\ seen' = {}
    /\ commit' = None
    /\ deltaIdx' = 0
    /\ path' = <<>>
    /\ url_path' = None
    /\ items' = <<>>
    /\ chan' = None
    /\ ttl' = None
    /\ walked' = <<>>
    /\ UNCHANGED <<repo, conf>>

\* Repository::open / open_from_env
OpenRepo ==
    /\ pc = "start"
    /\ \E ok \in BOOLEAN :
          IF ok
          THEN /\ pc' = "setup"
               /\ UNCHANGED <<repo, conf, pending, seen, commit, deltaIdx, path, url_path,
                              items, chan, ttl, stdout, err, walked>>
          ELSE Abort("repository", stdout)

\* Url::parse(conf["base-url"].as_str().unwrap())?, Vec::new(), revwalk.push_head()?
Setup ==
    /\ pc = "setup"
    /\ IF ~IsSome(conf.base_url) THEN Abort("config", stdout)
       ELSE IF ~IsSome(UrlParse(Unwrap(conf.base_url))) THEN Abort("base_url", stdout)
       ELSE IF ~IsSome(repo.head) THEN Abort("repository", stdout)
       ELSE /\ pc' = "walk"
            /\ pending' = {Unwrap(repo.head)}
            /\ seen' = {Unwrap(repo.head)}
            /\ items' = <<>>
            /\ UNCHANGED <<repo, conf, commit, deltaIdx, path, url_path, chan, ttl,
                           stdout, err, walked>>

BaseUrl == Unwrap(UrlParse(Unwrap(conf.base_url)))

\* a variant that walks oldest first
Oldest(q) == {id \in q : \A j \in q : repo.commits[id].time <= repo.commits[j].time}

\* the default revwalk order: the queued commit with the newest commit time
Newest(q) == {id \in q : \A j \in q : repo.commits[j].time <= repo.commits[id].time}

ParentCount(c) == Len(c.parents)

\* a variant of the merge test that lets merges through
IsMergeNever(c) == FALSE

\* commit.parent_count() > 1
IsMerge(c) == ParentCount(c) > 1

Walked(c, diffed) == [id |-> c.id, parents |-> c.parents, message |-> c.message,
                      deltas |-> c.deltas, diffed |-> diffed]

\* one iteration of `for id in revwalk` up to the diff
NextCommit ==
    /\ pc = "walk"
    /\ pending # {}
    /\ \E id \in Newest(pending), x \in Contents(repo) :
          LET ps == repo.commits[id].parents
              c == [id |-> id, parents |-> ps, message |-> x.message, when |-> x.when,
                    deltas |-> x.deltas,
                    author_date |-> Rfc822Time(x.when),
                    author |-> IF IsSome(x.author.email) /\ IsSome(x.author.name)
                               THEN Some(Unwrap(x.author.email) \o <<" ", "(">>
                                            \o Unwrap(x.author.name) \o <<")">>)
                               ELSE None]
              new == {ps[i] : i \in 1..Len(ps)} \ seen
              skip(diffed) ==
                  /\ pc' = "walk"
                  /\ commit' = Some(c)
                  /\ pending' = (pending \ {id}) \cup new
                  /\ seen' = seen \cup new
                  /\ walked' = Append(walked, Walked(c, diffed))
                  /\ UNCHANGED <<repo, conf, deltaIdx, path, url_path, items, chan, ttl,
                                 stdout, err>>
          IN  IF x.fault \in {"revwalk", "find_commit"} THEN Abort("repository", stdout)
              ELSE IF IsMerge(c) THEN skip(FALSE)
              ELSE IF OptOut(c.message) THEN skip(FALSE)
              ELSE IF ~IsSome(c.author_date) THEN Abort("time", stdout)
              ELSE IF ~IsSome(c.author) THEN Abort("identity", stdout)
              ELSE IF x.fault = "parent" /\ ParentCount(c) = 1 THEN Abort("repository", stdout)
              ELSE IF x.fault \in {"tree", "diff"} THEN Abort("repository", stdout)
              ELSE IF c.deltas = <<>> THEN skip(TRUE)
              ELSE /\ pc' = "deltas"
                   /\ commit' = Some(c)
                   /\ deltaIdx' = 1
                   /\ pending' = (pending \ {id}) \cup new
                   /\ seen' = seen \cup new
                   /\ walked' = Append(walked, Walked(c, TRUE))
                   /\ UNCHANGED <<repo, conf, path, url_path, items, chan, ttl, stdout, err>>

\* the arms of `match delta.status()` that produce an item
Handled(st) == st \in {"Added", "Deleted", "Modified"}

TitleKey(st) ==
    IF st = "Added" THEN "item-title-page-new"
    ELSE IF st = "Deleted" THEN "item-title-page-removed"
    ELSE "item-title-page-modified"

\* one iteration of `for delta in diff.deltas()`
ProcessDelta ==
    /\ pc = "deltas"
    /\ LET c == Unwrap(commit)
           d == c.deltas[deltaIdx]
           file == IF d.status = "Deleted" THEN d.old_file ELSE d.new_file
           p == Unwrap(file)
           u == UrlPath(p, StripPrefix(conf))
           link == UrlJoin(BaseUrl, Unwrap(u))
           title == IF IsSome(conf.titles[TitleKey(d.status)])
                    THEN Some(ReplaceP(Unwrap(conf.titles[TitleKey(d.status)]), Unwrap(u)))
                    ELSE None
           item == [author |-> c.author, pub_date |-> c.author_date,
                    title |-> title, link |-> link]
           next(its, pth, up) ==
               /\ pc' = IF deltaIdx = Len(c.deltas) THEN "walk" ELSE "deltas"
               /\ deltaIdx' = deltaIdx + 1
               /\ items' = its
               /\ path' = pth
               /\ url_path' = up
               /\ UNCHANGED <<repo, conf, pending, seen, commit, chan, ttl, stdout, err, walked>>
       IN  IF ~Handled(d.status) THEN next(items, path, url_path)
           ELSE IF ~IsSome(file) THEN Abort("path", stdout)
           ELSE IF Ignored(conf.ignore_files, p) THEN next(items, p, url_path)
           ELSE IF ~IsSome(u) THEN Abort("slice", stdout)
           ELSE IF ~IsSome(link) THEN Abort("url", stdout)
           ELSE next(Append(items, <<c.when, item, <<c.id, deltaIdx>>>>), p, u)

\* the revwalk iterator is exhausted
WalkDone ==
    /\ pc = "walk"
    /\ pending = {}
    /\ pc' = "sort"
    /\ UNCHANGED <<repo, conf, pending, seen, commit, deltaIdx, path, url_path, items,
                   chan, ttl, stdout, err, walked>>

\* the orders of the positions S of its in which the keys never decrease
RECURSIVE SortedOrders(_, _)
SortedOrders(its, S) ==
    IF S = {} THEN {<<>>}
    ELSE UNION {{<<i>> \o o : o \in SortedOrders(its, S \ {i})} :
                   i \in {j \in S : \A k \in S : TimeLE(its[j][1], its[k][1])}}

\* a variant that leaves the list as the walk appended it
KeepOrder(its) == {[i \in 1..Len(its) |-> i]}

\* items.sort_unstable_by_key(|e| e.0): equal keys may end in any order
SortUnstableByKey(its) == SortedOrders(its, 1..Len(its))

\* the sort; the key and the history tag stay beside each item
Sort ==
    /\ pc = "sort"
    /\ \E o \in SortUnstableByKey(items) :
          items' = [i \in 1..Len(items) |-> items[o[i]]]
    /\ pc' = "channel"
    /\ UNCHANGED <<repo, conf, pending, seen, commit, deltaIdx, path, url_path,
                   chan, ttl, stdout, err, walked>>

\* a variant that takes both dates from the first item
LastBuildDateFirst(its) == IF its = <<>> THEN None ELSE its[1][2].pub_date

\* items.first().and_then(|x| x.pub_date())
PubDate(its) == IF its = <<>> THEN None ELSE its[1][2].pub_date

\* items.last().and_then(|x| x.pub_date())
LastBuildDate(its) == IF its = <<>> THEN None ELSE its[Len(its)][2].pub_date

\* ChannelBuilder ... .build(); the optional pass-through fields are left out
BuildChannel ==
    /\ pc = "channel"
    /\ LET t == TtlOf(conf.ttl)
       IN  IF ~IsSome(conf.channel_title) \/ ~IsSome(conf.channel_link)
              \/ ~IsSome(conf.channel_description)
           THEN Abort("config", stdout)
           ELSE IF ~IsSome(t) THEN Abort("ttl", stdout)
           ELSE /\ pc' = "write"
                /\ ttl' = t
                /\ chan' = Some([title |-> Unwrap(conf.channel_title),
                                 link |-> Unwrap(conf.channel_link),
                                 description |-> Unwrap(conf.channel_description),
                                 pub_date |-> PubDate(items),
                                 last_build_date |-> LastBuildDate(items),
                                 ttl |-> Unwrap(t),
                                 items |-> [i \in 1..Len(items) |-> items[i][2]]])
                /\ UNCHANGED <<repo, conf, pending, seen, commit, deltaIdx, path, url_path,
                               items, stdout, err, walked>>

\* a variant that starts writing while the walk is still going on
ReadyToWriteEarly == pc \in {"walk", "write"}

\* the write is the last statement of main(), behind the channel construction
ReadyToWrite == pc = "write"

\* chan.pretty_write_to(stdout) / chan.write_to(stdout): a failed write may
\* leave a part of the document written
WriteChannel ==
    /\ ReadyToWrite
    /\ \E r \in {"ok", "failed", "broken"} :
          IF r = "ok"
          THEN /\ stdout' = Append(stdout, "channel")
               /\ pc' = IF conf.pretty THEN "println" ELSE "done"
               /\ UNCHANGED <<repo, conf, pending, seen, commit, deltaIdx, path, url_path,
                              items, chan, ttl, err, walked>>
          ELSE Abort("io", IF r = "failed" THEN stdout ELSE Append(stdout, "part"))

\* println!()
Println ==
    /\ pc = "println"
    /\ stdout' = Append(stdout, NL)
    /\ pc' = "done"
    /\ UNCHANGED <<repo, conf, pending, seen, commit, deltaIdx, path, url_path,
                   items, chan, ttl, err, walked>>

Next ==
    \/ OpenRepo
    \/ Setup
    \/ NextCommit
    \/ ProcessDelta
    \/ WalkDone
    \/ Sort
    \/ BuildChannel
    \/ WriteChannel
    \/ Println

Spec == Init /\ [][Next]_vars

(***************************************************************************)
(* The URL path derivation alone, over every short path and prefix         *)
(***************************************************************************)
PathChars == {"a", ".", "m", "d"}
Paths == SeqsUpTo(PathChars, MaxPathLen)
Prefixes == SeqsUpTo(PathChars, MaxPrefixLen)

InitUrl ==
    /\ pc = "url"
    /\ path \in Paths
    /\ \E pre \in Prefixes : conf = [DefaultConf EXCEPT !.arg_prefix = Some(pre)]
    /\ repo = R_unborn
    /\ pending = {}
    /\ seen = {}
    /\ commit = None
    /\ deltaIdx = 0
    /\ url_path = None
    /\ items = <<>>
    /\ chan = None
    /\ ttl = None
    /\ stdout = <<>>
    /\ err = ""
    /\ walked = <<>>

\* the block that computes `url_path` from `path` and `strip_prefix`
DeriveUrl ==
    /\ pc = "url"
    /\ LET u == UrlPath(path, StripPrefix(conf))
       IN  IF IsSome(u)
           THEN /\ pc' = "url_done"
                /\ url_path' = u
                /\ UNCHANGED <<repo, conf, pending, seen, commit, deltaIdx, path,
                               items, chan, ttl, stdout, err, walked>>
           ELSE Abort("slice", stdout)

NextUrl == DeriveUrl

SpecUrl == InitUrl /\ [][NextUrl]_vars

(***************************************************************************)
(* The ttl match alone, over integers, duration strings and other values   *)
(***************************************************************************)
TtlNums == {0, 2, 119}
TtlUnits == {<<"s">>, <<"m">>, <<"h">>, <<"x">>}
TtlParts == {<<n, u>> : n \in TtlNums, u \in TtlUnits}

\* the text of a list of parts, separated by sep
RECURSIVE PartsText(_, _)
PartsText(ps, sep) ==
    IF ps = <<>> THEN <<>>
    ELSE IntToStr(Head(ps)[1]) \o Head(ps)[2]
         \o (IF Tail(ps) = <<>> THEN <<>> ELSE sep) \o PartsText(Tail(ps), sep)

TtlStrings ==
    {PartsText(ps, sep) : ps \in SeqsUpTo(TtlParts, MaxParts), sep \in {<<>>, <<" ">>}}
    \cup {<<"2">>, <<"h">>, <<" ">>, <<"2", " ", "h">>}

TtlValues ==
    {YInteger(n) : n \in (-2..MaxTtlInt) \cup {120}}
    \cup {YString(x) : x \in TtlStrings}
    \cup {YBadValue, YBoolean, YArray}

InitTtl ==
    /\ pc = "ttl"
    /\ \E y \in TtlValues : conf = [DefaultConf EXCEPT !.ttl = y]
    /\ repo = R_unborn
    /\ pending = {}
    /\ seen = {}
    /\ commit = None
    /\ deltaIdx = 0
    /\ path = <<>>
    /\ url_path = None
    /\ items = <<>>
    /\ chan = None
    /\ ttl = None
    /\ stdout = <<>>
    /\ err = ""
    /\ walked = <<>>

\* the argument of .ttl(..)
EvalTtl ==
    /\ pc = "ttl"
    /\ LET t == TtlOf(conf.ttl)
       IN  IF IsSome(t)
           THEN /\ pc' = "ttl_done"
                /\ ttl' = t
                /\ UNCHANGED <<repo, conf, pending, seen, commit, deltaIdx, path, url_path,
                               items, chan, stdout, err, walked>>
           ELSE Abort("ttl", stdout)

NextTtl == EvalTtl

SpecTtl == InitTtl /\ [][NextTtl]_vars

(***************************************************************************)
(* Vocabulary of the properties                                            *)
(***************************************************************************)
\* the lines of a message; a final newline ends the last line
RECURSIVE LinesOf(_, _)
LinesOf(msg, cur) ==
    IF msg = <<>> THEN (IF cur = <<>> THEN {} ELSE {cur})
    ELSE IF Head(msg) = NL THEN {cur} \cup LinesOf(Tail(msg), <<>>)
    ELSE LinesOf(Tail(msg), Append(cur, Head(msg)))

\* the message has a line that consists of no-rss and nothing else
StandaloneNoRss(message) == IsSome(message) /\ NORSS \in LinesOf(Unwrap(message), <<>>)

Sorted == pc \in {"channel", "write", "println", "done"}
Built == pc \in {"write", "println", "done"}

WalkedIds == {walked[i].id : i \in 1..Len(walked)}
WalkPos(id) == CHOOSE i \in 1..Len(walked) : walked[i].id = id
ItemSrcs == {items[i][3] : i \in 1..Len(items)}

\* the position at which an item was appended during the walk
Before(a, b) == WalkPos(a[1]) < WalkPos(b[1]) \/ (a[1] = b[1] /\ a[2] < b[2])

PathOf(d) == IF d.status = "Deleted" THEN d.old_file ELSE d.new_file

\* the deltas the walk has met that survive: the commit is neither a merge nor
\* opted out (by the given test), the status is Added, Deleted or Modified,
\* and the path is not on the ignore list
Survivors(OptedOut(_)) ==
    {<<walked[ik[1]].id, ik[2]>> : ik \in
        {<<i, k>> \in (1..Len(walked)) \X (1..MaxDeltas) :
            /\ k <= Len(walked[i].deltas)
            /\ Len(walked[i].parents) <= 1
            /\ ~OptedOut(walked[i].message)
            /\ walked[i].deltas[k].status \in {"Added", "Deleted", "Modified"}
            /\ ~(IsSome(conf.ignore_files)
                 /\ \E pat \in Unwrap(conf.ignore_files) :
                       Glob(pat, Unwrap(PathOf(walked[i].deltas[k]))))}}

NoDuplicateItems == \A i, j \in 1..Len(items) : items[i][3] = items[j][3] => i = j

(***************************************************************************)
(* C1                                                                      *)
(***************************************************************************)
\* C1: no feed item is produced for a commit whose message has a line that
\* consists solely of no-rss, wherever the line sits and with or without a
\* final newline.
C1_NoItemForNoRssLine ==
    \A i \in 1..Len(items) :
        items[i][3][1] \in WalkedIds =>
            ~StandaloneNoRss(walked[WalkPos(items[i][3][1])].message)

\* What the opt-out test does guarantee: no item for a commit whose message
\* holds no-rss between two newlines, and such a commit is never diffed.
C1_NoItemForEnclosedLine ==
    /\ \A i \in 1..Len(walked) :
          Contains(IF IsSome(walked[i].message) THEN Unwrap(walked[i].message) ELSE <<>>,
                   <<NL>> \o NORSS \o <<NL>>)
             => ~walked[i].diffed /\ \A s \in ItemSrcs : s[1] # walked[i].id

(***************************************************************************)
(* C2                                                                      *)
(***************************************************************************)
\* C2 as stated: after the sort the items are in non-decreasing order of
\* author timestamp and items with equal timestamps keep the order in which
\* the walk appended them.
C2_SortedAndStable ==
    Sorted =>
        \A i, j \in 1..Len(items) :
            i < j => /\ items[i][1].seconds <= items[j][1].seconds
                     /\ items[i][1] = items[j][1] => Before(items[i][3], items[j][3])

\* C2 amended: after the sort the items are in non-decreasing order of author
\* timestamp (seconds, then offset), and the sort only permutes the list; the
\* order of items with equal timestamps is not fixed.
C2_SortedPermutation ==
    [][pc = "sort" /\ pc' = "channel" =>
          /\ Len(items') = Len(items)
          /\ \A i \in 1..Len(items) : \E j \in 1..Len(items) : items'[j] = items[i]
          /\ \A i, j \in 1..Len(items) :
                i < j => /\ items'[i][1].seconds <= items'[j][1].seconds
                         /\ TimeLE(items'[i][1], items'[j][1])]_vars

\* the sort has moved an item of a later walk position in front of an earlier one
C2_Witness ==
    /\ pc = "channel"
    /\ \E i, j \in 1..Len(items) :
          i < j /\ items[i][1] # items[j][1] /\ Before(items[j][3], items[i][3])

(***************************************************************************)
(* C3                                                                      *)
(***************************************************************************)
\* C3: a commit with more than one parent produces no feed item, no diff is
\* computed for it, and the walk goes on with the list as it was.
C3_MergeSkipped ==
    /\ \A i \in 1..Len(walked) :
          Len(walked[i].parents) > 1 =>
              ~walked[i].diffed /\ \A s \in ItemSrcs : s[1] # walked[i].id
    /\ IsSome(commit) /\ Len(Unwrap(commit).parents) > 1 => pc = "walk"

\* a merge was walked and the walk went on to produce items from other commits
C3_Witness ==
    /\ \E i \in 1..Len(walked) : Len(walked[i].parents) > 1
    /\ items # <<>>
    /\ pc = "done"

(***************************************************************************)
(* C4                                                                      *)
(***************************************************************************)
\* C4: the final item list holds exactly one item for each surviving delta
\* and nothing else, where a commit is opted out when its message has a line
\* that consists solely of no-rss.
C4_OneItemPerSurvivor ==
    pc = "done" => NoDuplicateItems /\ ItemSrcs = Survivors(StandaloneNoRss)

\* The same with the opt-out read as the test the program performs.
C4_OneItemPerSurvivorEnclosed ==
    pc = "done" => NoDuplicateItems /\ ItemSrcs = Survivors(OptOut)

(***************************************************************************)
(* C5                                                                      *)
(***************************************************************************)
\* the .md -> .html rewrite of an already stripped path
Rewritten(x) ==
    IF EndsWith(x, MD) THEN SubSeq(x, 1, Len(x) - 3) \o <<".">> \o HTML ELSE x

\* C5: a path P \o X is reduced to exactly X (which then takes the .md
\* rewrite) before URL joining; a path that does not start with P is used
\* unmodified and raises no error.
C5_PrefixStripped ==
    pc \in {"url_done", "aborted"} =>
        LET P == StripPrefix(conf)
        IN  IF StartsWith(path, P)
            THEN url_path = Some(Rewritten(Drop(path, Len(P))))
            ELSE pc = "url_done" /\ url_path = Some(Rewritten(path))

(***************************************************************************)
(* C6                                                                      *)
(***************************************************************************)
\* C6: the channel's publish date is the formatted date of an item with the
\* earliest author timestamp and its last-build date that of an item with the
\* latest; with no items both are absent, the item list is empty and title,
\* link and description are there all the same.
C6_ChannelDates ==
    Built =>
        LET ch == Unwrap(chan)
            n == Len(items)
        IN  /\ Len(ch.items) = n
            /\ ch.title = Unwrap(conf.channel_title)
            /\ ch.link = Unwrap(conf.channel_link)
            /\ ch.description = Unwrap(conf.channel_description)
            /\ n = 0 => ch.pub_date = None /\ ch.last_build_date = None /\ ch.items = <<>>
            /\ n > 0 =>
                  /\ \E i \in 1..n :
                        /\ \A j \in 1..n : items[i][1].seconds <= items[j][1].seconds
                        /\ ch.pub_date = Rfc822Time(items[i][1])
                        /\ ch.pub_date = ch.items[i].pub_date
                  /\ \E i \in 1..n :
                        /\ \A j \in 1..n : items[j][1].seconds <= items[i][1].seconds
                        /\ ch.last_build_date = Rfc822Time(items[i][1])
                        /\ ch.last_build_date = ch.items[i].pub_date

\* a finished run whose items span two author times
C6_Witness ==
    /\ pc = "done"
    /\ Len(items) >= 2
    /\ Unwrap(chan).pub_date # Unwrap(chan).last_build_date

\* a finished run without items
C6_WitnessEmpty == pc = "done" /\ items = <<>> /\ walked # <<>>

(***************************************************************************)
(* C7                                                                      *)
(***************************************************************************)
FatalErrors == {"repository", "identity", "base_url", "url", "config", "ttl"}

\* C7: a run that ends in a fatal error has written nothing to standard
\* output; output exists only once the walk, the sort and the channel
\* construction are through.
C7_NoPartialOutput ==
    /\ err \in FatalErrors => stdout = <<>>
    /\ stdout # <<>> => (pc \in {"println", "done"} /\ IsSome(chan)) \/ err = "io"

\* a run that got through the walk and the sort and then failed on the ttl
C7_Witness == pc = "aborted" /\ err = "ttl" /\ stdout = <<>>

(***************************************************************************)
(* C8                                                                      *)
(***************************************************************************)
\* the number a decimal string denotes
RECURSIVE Decimal(_)
Decimal(x) ==
    IF x = <<>> THEN 0
    ELSE IF Head(x) = "-" THEN -Decimal(Tail(x))
    ELSE (CHOOSE v \in 0..9 : Digits[v + 1] = x[Len(x)]) + 10 * Decimal(Front(x))

UnitOf(u) == IF u = <<"s">> THEN 1 ELSE IF u = <<"h">> THEN 3600 ELSE 60

RECURSIVE PartsSeconds(_)
PartsSeconds(ps) ==
    IF ps = <<>> THEN 0 ELSE Head(ps)[1] * UnitOf(Head(ps)[2]) + PartsSeconds(Tail(ps))

GoodParts == {ps \in SeqsUpTo(TtlParts, MaxParts) :
                 ps # <<>> /\ \A i \in 1..Len(ps) : ps[i][2] # <<"x">>}

\* C8: an integer n gives the ttl n; a duration string of s seconds gives
\* floor(s / 60); an absent key gives no ttl; any other type aborts the run
\* with a configuration error.
C8_Ttl ==
    pc \in {"ttl_done", "aborted"} =>
        LET y == conf.ttl
        IN  /\ y.type = "Integer" =>
                  pc = "ttl_done" /\ IsSome(Unwrap(ttl)) /\ Decimal(Unwrap(Unwrap(ttl))) = y.int
            /\ y.type = "String" =>
                  \A ps \in GoodParts, sep \in {<<>>, <<" ">>} :
                      y.str = PartsText(ps, sep) =>
                          /\ pc = "ttl_done"
                          /\ IsSome(Unwrap(ttl))
                          /\ Decimal(Unwrap(Unwrap(ttl))) = PartsSeconds(ps) \div 60
            /\ y = YString(<<"2", "h">>) => ttl = Some(Some(<<"1", "2", "0">>))
            /\ y.type = "BadValue" => ttl = Some(None)
            /\ y.type \notin {"Integer", "String", "BadValue"} =>
                  pc = "aborted" /\ err = "ttl"

\* a duration whose seconds are no whole number of minutes
C8_Witness ==
    /\ pc = "ttl_done"
    /\ conf.ttl = YString(<<"1", "1", "9", "s">>)
    /\ ttl = Some(Some(<<"1">>))

(***************************************************************************)
(* C9                                                                      *)
(***************************************************************************)
\* C9: the derivation yields a value for every path and prefix; when the
\* stripped path ends with .md the value is the stripped path with .md
\* replaced by .html, otherwise it is the stripped path.
C9_MdRewrite ==
    pc \in {"url_done", "aborted"} =>
        LET P == StripPrefix(conf)
            stripped == IF StartsWith(path, P) THEN Drop(path, Len(P)) ELSE path
        IN  /\ pc = "url_done"
            /\ IsSome(url_path)
            /\ EndsWith(stripped, MD) =>
                  Unwrap(url_path) = SubSeq(stripped, 1, Len(stripped) - 3) \o <<".">> \o HTML
            /\ ~EndsWith(stripped, MD) => Unwrap(url_path) = stripped

(***************************************************************************)
(* C10                                                                     *)
(***************************************************************************)
ParentsOf(id) == {repo.commits[id].parents[k] : k \in 1..Len(repo.commits[id].parents)}

RECURSIVE Reachable(_, _)
Reachable(S, n) ==
    IF n = 0 THEN S ELSE Reachable(S \cup UNION {ParentsOf(id) : id \in S}, n - 1)

\* C10 as stated: the walk is oldest first, every commit is visited after all
\* of its ancestors.
C10_AncestorsFirst ==
    \A i \in 1..Len(walked) :
        \A a \in Reachable(ParentsOf(walked[i].id), Len(repo.commits)) :
            \E j \in 1..(i - 1) : walked[j].id = a

\* C10 amended: the walk starts at HEAD and visits every commit reachable
\* from it once; a commit other than HEAD comes after one of its children,
\* and of two commits that were queued together the one with the newer
\* commit time comes first; items are appended in that order.
C10_NewestFirst ==
    /\ walked # <<>> => walked[1].id = Unwrap(repo.head)
    /\ \A i, j \in 1..Len(walked) : walked[i].id = walked[j].id => i = j
    /\ \A i \in 2..Len(walked) : \E j \in 1..(i - 1) : walked[i].id \in ParentsOf(walked[j].id)
    /\ \A i, j \in 1..Len(walked) :
          (i < j /\ \E k \in 1..(i - 1) : walked[j].id \in ParentsOf(walked[k].id))
             => repo.commits[walked[j].id].time <= repo.commits[walked[i].id].time
    /\ pc = "sort" => WalkedIds = Reachable({Unwrap(repo.head)}, Len(repo.commits))
    /\ pc \in {"walk", "deltas", "sort"} =>
          \A i, j \in 1..Len(items) : i < j => Before(items[i][3], items[j][3])

\* the walk is over and a commit was visited before its parent and before
\* an ancestor that is no parent
C10_Witness ==
    /\ pc = "sort"
    /\ Len(walked) >= 3
    /\ walked[2].id \in ParentsOf(walked[1].id)
    /\ Len(items) >= 2

====
